---- MODULE Spec2Model ----
(***************************************************************************)
(* A model of the custom code of transformer-distiller:                    *)
(*   - the loss combination of BaseDistiller / InterDistiller              *)
(*     (helper/distiller.py, compute_loss and training_step),              *)
(*   - the parameter groups of configure_optimizers,                       *)
(*   - the checkpoint adapter HgCkptIO and the on_save_checkpoint hook,     *)
(*   - the perplexity of Pretrainer.validation_epoch_end,                  *)
(*   - the top-level script distillation_2steps.py.                        *)
(* Loss values are fixed-point naturals (one unit = one nat); a Python     *)
(* dict is a sequence of <<key, value>> pairs in insertion order.          *)
(***************************************************************************)
EXTENDS Integers, Sequences, FiniteSets, TLC

\* ------------------------------------------------------------------ bounds
MaxLoss == 2
MaxAdaptors == 2
MaxOutputs == 3
MaxEpochs == 2

\* ------------------------------------------------------------ Python dicts
DictKeys(d) == {d[i][1] : i \in 1..Len(d)}

DictHas(d, k) == k \in DictKeys(d)

DictGet(d, k, default) ==
    IF DictHas(d, k)
    THEN LET i == CHOOSE j \in 1..Len(d) : d[j][1] = k IN d[i][2]
    ELSE default

DictSet(d, k, v) ==
    IF DictHas(d, k)
    THEN [i \in 1..Len(d) |-> IF d[i][1] = k THEN <<k, v>> ELSE d[i]]
    ELSE Append(d, <<k, v>>)

DictPop(d, k) ==
    LET keep(e) == e[1] # k IN SelectSeq(d, keep)

RECURSIVE DictValuesSum(_)
DictValuesSum(d) ==
    IF d = <<>> THEN 0 ELSE Head(d)[2] + DictValuesSum(Tail(d))

\* ------------------------------------------------------- loss combination
VARIABLES
    cls,          \* class of the distiller: its training_step is the one run
    adaptors,     \* self.adaptors: sequence of [name, w]
    batch,        \* the batch of the step: [labels |-> BOOLEAN]
    out_t,        \* teacher output of forward, a dict
    out_s,        \* student output of forward, a dict
    adaptor_out,  \* value each adaptor call returned, by position
    logged,       \* sequence of <<k, v>> passed to self.log, in order
    loss_dict,    \* loss_dict as it is when its values are summed
    ret,          \* value returned by training_step
    step_pc       \* "ready" before the step, "returned" after it

lossVars == <<cls, adaptors, batch, out_t, out_s, adaptor_out, logged,
              loss_dict, ret, step_pc>>

AdaptorNames == {"attentions:mse", "hidden_states:mse", "logits:kld"}
AdaptorWeights == {1, 2}
LossValues == 0..MaxLoss

Adaptor == [name : AdaptorNames, w : AdaptorWeights]

\* Lists of adaptors, each with its own name (the name is the key of its term).
AdaptorLists ==
    {a \in UNION {[1..n -> Adaptor] : n \in 0..MaxAdaptors} :
        \A i, j \in 1..Len(a) : i # j => a[i].name # a[j].name}

\* Outputs of a sequence-classification model on a batch: 'loss' is present
\* exactly when the batch carries labels.
ModelOutputs(b) ==
    IF b.labels THEN {<< <<"loss", l>> >> : l \in LossValues} ELSE {<<>>}

\* compute_loss with the weight added to the adaptor's loss, not multiplied.
MutCompute_loss(ot, os, ads, vals) ==
    LET RECURSIVE Fill(_, _)
        Fill(d, i) ==
            IF i > Len(ads) THEN d
            ELSE Fill(DictSet(d, ads[i].name, ads[i].w + vals[i]), i + 1)
    IN Fill(<< <<"pred:nll", DictGet(os, "loss", 0)>>,
               <<"nll_loss_teacher", DictGet(ot, "loss", 0)>> >>, 1)

compute_loss(ot, os, ads, vals) ==
    LET RECURSIVE Fill(_, _)
        Fill(d, i) ==
            IF i > Len(ads) THEN d
            ELSE Fill(DictSet(d, ads[i].name, ads[i].w * vals[i]), i + 1)
    IN Fill(<< <<"pred:nll", DictGet(os, "loss", 0)>>,
               <<"nll_loss_teacher", DictGet(ot, "loss", 0)>> >>, 1)

\* The removal of lines 148-150 left out.
MutBasePopPred(d) == d

BasePopPred(d) ==
    IF DictGet(d, "pred:nll", 0) = 0
    THEN DictPop(DictPop(d, "pred:nll"), "nll_loss_teacher")
    ELSE d

\* InterDistiller's removal without its elif branch.
MutInterPopPred(d) == BasePopPred(d)

InterPopPred(d) ==
    IF DictGet(d, "pred:nll", 0) = 0
    THEN DictPop(DictPop(d, "pred:nll"), "nll_loss_teacher")
    ELSE IF DictHas(d, "pred:nll") THEN DictPop(d, "pred:nll") ELSE d

\* The removal of lines 155-156 left out.
MutPopTeacher(d) == d

PopTeacher(d) ==
    IF DictHas(d, "nll_loss_teacher") THEN DictPop(d, "nll_loss_teacher") ELSE d

InitLoss ==
    /\ cls \in {"BaseDistiller", "InterDistiller"}
    /\ adaptors \in AdaptorLists
    /\ batch = [labels |-> FALSE]
    /\ out_t = <<>>
    /\ out_s = <<>>
    /\ adaptor_out = <<>>
    /\ logged = <<>>
    /\ loss_dict = <<>>
    /\ ret = 0
    /\ step_pc = "ready"

IdleLoss ==
    /\ cls = "none"
    /\ adaptors = <<>>
    /\ batch = [labels |-> FALSE]
    /\ out_t = <<>>
    /\ out_s = <<>>
    /\ adaptor_out = <<>>
    /\ logged = <<>>
    /\ loss_dict = <<>>
    /\ ret = 0
    /\ step_pc = "idle"

\* BaseDistiller.training_step(batch, idx): forward, compute_loss, the log of
\* every term, the removal of terms, the sum.
BaseDistiller_training_step ==
    /\ cls = "BaseDistiller"
    /\ step_pc = "ready"
    /\ \E b \in [labels : BOOLEAN] :
       \E ot \in ModelOutputs(b), os \in ModelOutputs(b) :
       \E vals \in [1..Len(adaptors) -> LossValues] :
          LET d0 == compute_loss(ot, os, adaptors, vals)
              d2 == PopTeacher(BasePopPred(d0))
          IN /\ batch' = b
             /\ out_t' = ot
             /\ out_s' = os
             /\ adaptor_out' = vals
             /\ logged' = d0
             /\ loss_dict' = d2
             /\ ret' = DictValuesSum(d2)
    /\ step_pc' = "returned"
    /\ UNCHANGED <<cls, adaptors>>

\* InterDistiller.training_step(batch, idx): the same with its own removal.
InterDistiller_training_step ==
    /\ cls = "InterDistiller"
    /\ step_pc = "ready"
    /\ \E b \in [labels : BOOLEAN] :
       \E ot \in ModelOutputs(b), os \in ModelOutputs(b) :
       \E vals \in [1..Len(adaptors) -> LossValues] :
          LET d0 == compute_loss(ot, os, adaptors, vals)
              d2 == PopTeacher(InterPopPred(d0))
          IN /\ batch' = b
             /\ out_t' = ot
             /\ out_s' = os
             /\ adaptor_out' = vals
             /\ logged' = d0
             /\ loss_dict' = d2
             /\ ret' = DictValuesSum(d2)
    /\ step_pc' = "returned"
    /\ UNCHANGED <<cls, adaptors>>

\* ------------------------------------------------------ optimizer groups
VARIABLES
    opt_cls,           \* class whose configure_optimizers runs
    named_parameters,  \* names of self.named_parameters()
    param_groups,      \* optimizer_grouped_parameters: two [params, weight_decay]
    opt_pc             \* "ready" before configure_optimizers, "configured" after

optVars == <<opt_cls, named_parameters, param_groups, opt_pc>>

\* A parameter name is the sequence of its dot-separated components; a
\* substring test 'x.y' in n is the test that <<x, y>> occurs in n.
ParamTails ==
    { <<"bert", "embeddings", "LayerNorm", "weight">>,
      <<"bert", "encoder", "dense", "weight">>,
      <<"classifier", "weight">>,
      <<"classifier", "bias">> }

ParamNames == {<<m>> \o t : m \in {"teacher", "student"}, t \in ParamTails}

InName(pat, n) ==
    \E i \in 1..Len(n) :
        /\ i + Len(pat) - 1 <= Len(n)
        /\ SubSeq(n, i, i + Len(pat) - 1) = pat

no_decay == { <<"bias">>, <<"LayerNorm", "weight">> }

AnyNoDecay(n) == \E nd \in no_decay : InName(nd, n)

GroupedParameters(parameters) ==
    << [params |-> {n \in parameters : ~AnyNoDecay(n)},
        weight_decay |-> "hparams.weight_decay"],
       [params |-> {n \in parameters : AnyNoDecay(n)},
        weight_decay |-> "0.0"] >>

BaseParameters(named) == {n \in named : ~InName(<<"teacher">>, n)}

PredParameters(named) == {n \in named : InName(<<"classifier">>, n)}

InitOpt ==
    /\ opt_cls \in {"BaseDistiller", "PredDistiller"}
    /\ named_parameters \in SUBSET ParamNames
    /\ param_groups = <<>>
    /\ opt_pc = "ready"

IdleOpt ==
    /\ opt_cls = "none"
    /\ named_parameters = {}
    /\ param_groups = <<>>
    /\ opt_pc = "idle"

BaseDistiller_configure_optimizers ==
    /\ opt_cls = "BaseDistiller"
    /\ opt_pc = "ready"
    /\ param_groups' = GroupedParameters(BaseParameters(named_parameters))
    /\ opt_pc' = "configured"
    /\ UNCHANGED <<opt_cls, named_parameters>>

PredDistiller_configure_optimizers ==
    /\ opt_cls = "PredDistiller"
    /\ opt_pc = "ready"
    /\ param_groups' = GroupedParameters(PredParameters(named_parameters))
    /\ opt_pc' = "configured"
    /\ UNCHANGED <<opt_cls, named_parameters>>

\* --------------------------------------------------- checkpoint adapter
VARIABLES
    student_w,    \* version of the weights of self.student
    checkpoint,   \* the checkpoint dict of the save in progress
    ckpt_path,    \* the path of the save in progress
    fs_dirs,      \* directories of the filesystem
    fs_files,     \* serialized models: set of [path, content]
    ckpt_exc,     \* exception raised by the adapter, "none" if none
    ckpt_pc       \* "ready", "hooked" (hook ran, save pending)

ckptVars == <<student_w, checkpoint, ckpt_path, fs_dirs, fs_files, ckpt_exc,
              ckpt_pc>>

CkptDir == <<"ckpts">>
CkptPaths == {CkptDir \o <<f>> : f \in {"epoch=0", "epoch=1", "last"}}
NoPath == <<>>

dirname(path) == SubSeq(path, 1, Len(path) - 1)

\* The objects a distiller holds.
self_teacher == [obj |-> "teacher", weights |-> 0]
self_student == [obj |-> "student", weights |-> student_w]

\* The dict the training loop builds before it calls the hook: the module's
\* state_dict holds the parameters of both sub-models.
DumpCheckpoint ==
    << <<"epoch", [obj |-> "int", weights |-> student_w]>>,
       <<"state_dict", [obj |-> "teacher+student", weights |-> student_w]>> >>

\* The hook storing the teacher.
MutOn_save_checkpoint(ckpt) == DictSet(ckpt, "student", self_teacher)

on_save_checkpoint(ckpt) == DictSet(ckpt, "student", self_student)

InitCkpt ==
    /\ student_w = 0
    /\ checkpoint = <<>>
    /\ ckpt_path = NoPath
    /\ fs_dirs = {}
    /\ fs_files = {}
    /\ ckpt_exc = "none"
    /\ ckpt_pc = "ready"

IdleCkpt ==
    /\ student_w = 0
    /\ checkpoint = <<>>
    /\ ckpt_path = NoPath
    /\ fs_dirs = {}
    /\ fs_files = {}
    /\ ckpt_exc = "none"
    /\ ckpt_pc = "idle"

\* An epoch of training changes the student's weights (the teacher's are not
\* among the optimizer's parameters).
TrainEpoch ==
    /\ ckpt_pc = "ready"
    /\ student_w < MaxEpochs
    /\ student_w' = student_w + 1
    /\ UNCHANGED <<checkpoint, ckpt_path, fs_dirs, fs_files, ckpt_exc, ckpt_pc>>

\* The training loop starts a save to `path`: it builds the dict and calls the
\* module's hook on it.
BaseDistiller_on_save_checkpoint ==
    /\ ckpt_pc = "ready"
    /\ \E path \in CkptPaths : ckpt_path' = path
    /\ checkpoint' = on_save_checkpoint(DumpCheckpoint)
    /\ ckpt_pc' = "hooked"
    /\ UNCHANGED <<student_w, fs_dirs, fs_files, ckpt_exc>>

\* HgCkptIO.save_checkpoint(checkpoint, path).
HgCkptIO_save_checkpoint ==
    /\ ckpt_pc = "hooked"
    /\ IF DictHas(checkpoint, "student")
       THEN /\ fs_dirs' = fs_dirs \cup {dirname(ckpt_path), ckpt_path}
            /\ fs_files' = {f \in fs_files : f.path # ckpt_path} \cup
                  {[path |-> ckpt_path,
                    content |-> DictGet(checkpoint, "student", self_teacher)]}
            /\ ckpt_pc' = "ready"
            /\ UNCHANGED ckpt_exc
       ELSE /\ fs_dirs' = fs_dirs \cup {dirname(ckpt_path)}
            /\ ckpt_exc' = "KeyError"
            /\ ckpt_pc' = "raised"
            /\ UNCHANGED fs_files
    /\ UNCHANGED <<student_w, checkpoint, ckpt_path>>

\* HgCkptIO.remove_checkpoint(path).
HgCkptIO_remove_checkpoint ==
    /\ ckpt_pc = "ready"
    /\ \E path \in CkptPaths :
          IF path \in fs_dirs
          THEN /\ fs_dirs' = fs_dirs \ {path}
               /\ fs_files' = {f \in fs_files : f.path # path}
          ELSE UNCHANGED <<fs_dirs, fs_files>>
    /\ UNCHANGED <<student_w, checkpoint, ckpt_path, ckpt_exc, ckpt_pc>>

\* ------------------------------------------------------------ perplexity
VARIABLES
    outputs,      \* the val_loss of every validation step of the epoch
    perplexity,   \* the value logged as "perplexity", <<"none", 0>> if none
    ppl_exc,      \* exception that left validation_epoch_end, "none" if none
    ppl_pc        \* "ready" before validation_epoch_end, "done" after

pplVars == <<outputs, perplexity, ppl_exc, ppl_pc>>

\* math.exp(x) raises OverflowError when the result exceeds the largest
\* double: for whole x, when x > 709.
ExpMaxArg == 709

ValLossValues == {0, 1, ExpMaxArg, ExpMaxArg + 1, 2 * (ExpMaxArg + 1)}

RECURSIVE SeqSum(_)
SeqSum(s) == IF s = <<>> THEN 0 ELSE Head(s) + SeqSum(Tail(s))

\* torch.stack(...).mean(), in whole units (rounded down).
Mean(s) == SeqSum(s) \div Len(s)

math_exp(x) ==
    IF x > ExpMaxArg
    THEN [raised |-> "OverflowError", value |-> <<"none", 0>>]
    ELSE [raised |-> "none", value |-> <<"exp", x>>]

Inf == <<"inf", 0>>

\* The try/except catching another exception than math.exp raises.
MutPerplexityOf(val_loss) ==
    LET r == math_exp(val_loss)
    IN IF r.raised = "ValueError" THEN [raised |-> "none", value |-> Inf] ELSE r

\* The try/except of validation_epoch_end: [raised, value].
PerplexityOf(val_loss) ==
    LET r == math_exp(val_loss)
    IN IF r.raised = "OverflowError" THEN [raised |-> "none", value |-> Inf] ELSE r

InitPpl ==
    /\ outputs = <<>>
    /\ perplexity = <<"none", 0>>
    /\ ppl_exc = "none"
    /\ ppl_pc = "ready"

IdlePpl ==
    /\ outputs = <<>>
    /\ perplexity = <<"none", 0>>
    /\ ppl_exc = "none"
    /\ ppl_pc = "idle"

Pretrainer_validation_epoch_end ==
    /\ ppl_pc = "ready"
    /\ \E outs \in UNION {[1..n -> ValLossValues] : n \in 0..MaxOutputs} :
          /\ outputs' = outs
          /\ IF outs = <<>>
             THEN \* torch.stack of an empty list
                  /\ ppl_exc' = "RuntimeError"
                  /\ UNCHANGED perplexity
             ELSE LET r == PerplexityOf(Mean(outs))
                  IN /\ ppl_exc' = r.raised
                     /\ perplexity' = IF r.raised = "none" THEN r.value
                                      ELSE perplexity
    /\ ppl_pc' = "done"

\* ------------------------------------------------- distillation_2steps.py
VARIABLES
    args,         \* the argument namespace
    script_pc,    \* the statement the script has reached
    script_exc,   \* the uncaught exception that ended the script, or "none"
    dataset,      \* what get_dataset_obj returned
    teacher,      \* the script's variable teacher
    student,      \* the script's variable student
    distiller,    \* the script's variable distiller
    trainer,      \* the script's variable trainer
    events,       \* the training runs started and finished, in order
    hub_ckpts     \* models written by HgCkptIO.save_checkpoint

scriptVars == <<args, script_pc, script_exc, dataset, teacher, student,
                distiller, trainer, events, hub_ckpts>>

TrnChoices == {"sst2", "tweet", "sst2-tweet", "imdb"}
ValChoices == {"sst2", "tweet", "sst2-tweet", "imdb"}

\* --num_classes: the default of add_model_specific_args, or the YAML's value.
DefaultNumClasses == 2
NumClassesChoices == {DefaultNumClasses, DefaultNumClasses + 1}

Args ==
    [trn_dataset : TrnChoices,
     val_dataset : ValChoices,
     num_classes : NumClassesChoices,
     num_clases : {<<>>},
     student_model : {"None", "prajjwal1/bert-tiny"},
     teacher_model_pt_exists : BOOLEAN]

NoDataset == [name |-> "none", train |-> "none"]
NoModel == [id |-> "none", num_labels |-> 0, from |-> "none", fits |-> 0]
NoDistiller == [teacher |-> NoModel, student |-> NoModel]
NoTrainer == [plugins |-> {}, callbacks |-> {}]

\* get_dataset_obj(args): [raised, dataset, args], args as the call leaves it.
\* get_dataset_obj with defaults for the names it does not know.
MutGet_dataset_obj(a) ==
    LET train == IF a.trn_dataset \in {"sst2", "tweet", "sst2-tweet"}
                 THEN a.trn_dataset ELSE "sst2"
    IN IF a.val_dataset = "sst2"
       THEN [raised |-> "none",
             dataset |-> [name |-> "sst2", train |-> train],
             args |-> [a EXCEPT !.num_classes = 2]]
       ELSE [raised |-> "none",
             dataset |-> [name |-> "tweet", train |-> train],
             args |-> [a EXCEPT !.num_clases = <<3>>]]

get_dataset_obj(a) ==
    LET train == IF a.trn_dataset \in {"sst2", "tweet", "sst2-tweet"}
                 THEN a.trn_dataset ELSE "unbound"
    IN IF a.val_dataset = "sst2"
       THEN LET a1 == [a EXCEPT !.num_classes = 2]
            IN IF train = "unbound"
               THEN [raised |-> "UnboundLocalError", dataset |-> NoDataset,
                     args |-> a1]
               ELSE [raised |-> "none",
                     dataset |-> [name |-> "sst2", train |-> train],
                     args |-> a1]
       ELSE IF a.val_dataset = "tweet"
       THEN LET a1 == [a EXCEPT !.num_clases = <<3>>]
            IN IF train = "unbound"
               THEN [raised |-> "UnboundLocalError", dataset |-> NoDataset,
                     args |-> a1]
               ELSE [raised |-> "none",
                     dataset |-> [name |-> "tweet", train |-> train],
                     args |-> a1]
       ELSE [raised |-> "UnboundLocalError", dataset |-> NoDataset, args |-> a]

\* get_teacher_and_student(args): <<teacher, student>>.
get_teacher_and_student(a) ==
    << [id |-> "teacher#1", num_labels |-> a.num_classes,
        from |-> "teacher_model", fits |-> 0],
       [id |-> "student#1", num_labels |-> a.num_classes,
        from |-> a.student_model, fits |-> 0] >>

\* The parameters of BaseDistiller.__init__ after self: teacher, student,
\* args, adaptors.
InitParams == 4

\* Trainer(...): the plugins and callbacks the script passes.
Trainer(plugins, callbacks) == [plugins |-> plugins, callbacks |-> callbacks]

\* trainer.fit(distiller, dm) trains distiller.student; the loop saves through
\* HgCkptIO only when that plugin was given to the Trainer.
FitSaves(tr, d) ==
    IF "HgCkptIO" \in tr.plugins THEN {d.student} ELSE {}

InitScript ==
    /\ args \in Args
    /\ script_pc = "get_dataset_obj"
    /\ script_exc = "none"
    /\ dataset = NoDataset
    /\ teacher = NoModel
    /\ student = NoModel
    /\ distiller = NoDistiller
    /\ trainer = NoTrainer
    /\ events = <<>>
    /\ hub_ckpts = {}

IdleScript ==
    /\ args = [trn_dataset |-> "sst2", val_dataset |-> "sst2",
               num_classes |-> DefaultNumClasses, num_clases |-> <<>>,
               student_model |-> "None", teacher_model_pt_exists |-> TRUE]
    /\ script_pc = "idle"
    /\ script_exc = "none"
    /\ dataset = NoDataset
    /\ teacher = NoModel
    /\ student = NoModel
    /\ distiller = NoDistiller
    /\ trainer = NoTrainer
    /\ events = <<>>
    /\ hub_ckpts = {}

\* dm = ClfDataModule(get_dataset_obj(args), args)
ScriptGetDataset ==
    /\ script_pc = "get_dataset_obj"
    /\ LET r == get_dataset_obj(args)
       IN /\ args' = r.args
          /\ dataset' = r.dataset
          /\ script_exc' = r.raised
          /\ script_pc' = IF r.raised = "none" THEN "get_teacher_and_student"
                          ELSE "raised"
    /\ UNCHANGED <<teacher, student, distiller, trainer, events, hub_ckpts>>

\* teacher, student = get_teacher_and_student(args)
ScriptGetModels ==
    /\ script_pc = "get_teacher_and_student"
    /\ teacher' = get_teacher_and_student(args)[1]
    /\ student' = get_teacher_and_student(args)[2]
    /\ script_pc' = "distiller1"
    /\ UNCHANGED <<args, script_exc, dataset, distiller, trainer, events,
                   hub_ckpts>>

\* distiller = BaseDistiller(teacher, student, args, attn_adaptor,
\* hidn_adaptor): five arguments. The script imports BaseDistiller from
\* model.distiller; the constructor of helper/distiller.py takes InitParams
\* arguments and raises TypeError on this call, a constructor that takes the
\* adaptors one by one accepts it. Both outcomes are modelled.
ScriptDistiller1 ==
    /\ script_pc = "distiller1"
    /\ \E nparams \in {InitParams, InitParams + 1} :
          IF nparams = InitParams + 1
          THEN /\ distiller' = [teacher |-> teacher, student |-> student]
               /\ script_pc' = "fit1"
               /\ UNCHANGED script_exc
          ELSE /\ script_exc' = "TypeError"
               /\ script_pc' = "raised"
               /\ UNCHANGED distiller
    /\ UNCHANGED <<args, dataset, teacher, student, trainer, events, hub_ckpts>>

\* trainer = Trainer(gpus=1, max_epochs=1); trainer.fit(distiller, dm).
\* The run returns, or an exception of the training loop ends the script.
ScriptFit1 ==
    /\ script_pc = "fit1"
    /\ trainer' = Trainer({}, {})
    /\ \/ /\ events' = events \o <<"fit1:start", "fit1:end">>
          /\ distiller' = [distiller EXCEPT !.student.fits = @ + 1]
          /\ hub_ckpts' = hub_ckpts \cup
                FitSaves(trainer', [distiller EXCEPT !.student.fits = @ + 1])
          /\ script_pc' = "teacher2"
          /\ UNCHANGED script_exc
       \/ /\ events' = events \o <<"fit1:start">>
          /\ script_exc' = "RuntimeError"
          /\ script_pc' = "raised"
          /\ UNCHANGED <<distiller, hub_ckpts>>
    /\ UNCHANGED <<args, dataset, teacher, student>>

\* teacher = AutoModelForSequenceClassification.from_pretrained(
\*     args.teacher_model_pt, num_labels=args.num_classes)
ScriptTeacher2 ==
    /\ script_pc = "teacher2"
    /\ IF args.teacher_model_pt_exists
       THEN /\ teacher' = [id |-> "teacher#2", num_labels |-> args.num_classes,
                           from |-> "teacher_model_pt", fits |-> 0]
            /\ script_pc' = "distiller2"
            /\ UNCHANGED script_exc
       ELSE /\ script_exc' = "OSError"
            /\ script_pc' = "raised"
            /\ UNCHANGED teacher
    /\ UNCHANGED <<args, dataset, student, distiller, trainer, events,
                   hub_ckpts>>

\* student = distiller.student; distiller = BaseDistiller(teacher, student,
\* args, attn_adaptor, hidn_adaptor), the constructor that accepted the first
\* call.
ScriptDistiller2 ==
    /\ script_pc = "distiller2"
    /\ student' = distiller.student
    /\ distiller' = [teacher |-> teacher, student |-> distiller.student]
    /\ script_pc' = "fit2"
    /\ UNCHANGED <<args, script_exc, dataset, teacher, trainer, events,
                   hub_ckpts>>

\* early_stopping = EarlyStopping(...); trainer = Trainer(gpus=1,
\* logger=wandb_logger, callbacks=[early_stopping]); trainer.fit(distiller, dm)
ScriptFit2 ==
    /\ script_pc = "fit2"
    /\ trainer' = Trainer({}, {"EarlyStopping"})
    /\ \/ /\ events' = events \o <<"fit2:start", "fit2:end">>
          /\ distiller' = [distiller EXCEPT !.student.fits = @ + 1]
          /\ hub_ckpts' = hub_ckpts \cup
                FitSaves(trainer', [distiller EXCEPT !.student.fits = @ + 1])
          /\ script_pc' = "done"
          /\ UNCHANGED script_exc
       \/ /\ events' = events \o <<"fit2:start">>
          /\ script_exc' = "RuntimeError"
          /\ script_pc' = "raised"
          /\ UNCHANGED <<distiller, hub_ckpts>>
    /\ UNCHANGED <<args, dataset, teacher, student>>

\* ------------------------------------------------------- specifications
vars == <<lossVars, optVars, ckptVars, pplVars, scriptVars>>

NextLoss ==
    \/ BaseDistiller_training_step /\ UNCHANGED <<optVars, ckptVars, pplVars, scriptVars>>
    \/ InterDistiller_training_step /\ UNCHANGED <<optVars, ckptVars, pplVars, scriptVars>>

StartLoss == InitLoss /\ IdleOpt /\ IdleCkpt /\ IdlePpl /\ IdleScript

SpecLoss == StartLoss /\ [][NextLoss]_vars

NextOpt ==
    \/ BaseDistiller_configure_optimizers /\ UNCHANGED <<lossVars, ckptVars, pplVars, scriptVars>>
    \/ PredDistiller_configure_optimizers /\ UNCHANGED <<lossVars, ckptVars, pplVars, scriptVars>>

StartOpt == IdleLoss /\ InitOpt /\ IdleCkpt /\ IdlePpl /\ IdleScript

SpecOpt == StartOpt /\ [][NextOpt]_vars

NextCkpt ==
    \/ TrainEpoch /\ UNCHANGED <<lossVars, optVars, pplVars, scriptVars>>
    \/ BaseDistiller_on_save_checkpoint /\ UNCHANGED <<lossVars, optVars, pplVars, scriptVars>>
    \/ HgCkptIO_save_checkpoint /\ UNCHANGED <<lossVars, optVars, pplVars, scriptVars>>
    \/ HgCkptIO_remove_checkpoint /\ UNCHANGED <<lossVars, optVars, pplVars, scriptVars>>

StartCkpt == IdleLoss /\ IdleOpt /\ InitCkpt /\ IdlePpl /\ IdleScript

SpecCkpt == StartCkpt /\ [][NextCkpt]_vars

NextPpl ==
    Pretrainer_validation_epoch_end /\ UNCHANGED <<lossVars, optVars, ckptVars, scriptVars>>

StartPpl == IdleLoss /\ IdleOpt /\ IdleCkpt /\ InitPpl /\ IdleScript

SpecPpl == StartPpl /\ [][NextPpl]_vars

NextScript ==
    \/ ScriptGetDataset /\ UNCHANGED <<lossVars, optVars, ckptVars, pplVars>>
    \/ ScriptGetModels /\ UNCHANGED <<lossVars, optVars, ckptVars, pplVars>>
    \/ ScriptDistiller1 /\ UNCHANGED <<lossVars, optVars, ckptVars, pplVars>>
    \/ ScriptFit1 /\ UNCHANGED <<lossVars, optVars, ckptVars, pplVars>>
    \/ ScriptTeacher2 /\ UNCHANGED <<lossVars, optVars, ckptVars, pplVars>>
    \/ ScriptDistiller2 /\ UNCHANGED <<lossVars, optVars, ckptVars, pplVars>>
    \/ ScriptFit2 /\ UNCHANGED <<lossVars, optVars, ckptVars, pplVars>>

StartScript == IdleLoss /\ IdleOpt /\ IdleCkpt /\ IdlePpl /\ InitScript

SpecScript == StartScript /\ [][NextScript]_vars

\* --------------------------------------------------------------- claims
\* The terms of a step, from its inputs.
PredTerm == DictGet(out_s, "loss", 0)

TeacherTerm == DictGet(out_t, "loss", 0)

RECURSIVE WeightedSum(_)
WeightedSum(i) ==
    IF i = 0 THEN 0
    ELSE adaptors[i].w * adaptor_out[i] + WeightedSum(i - 1)

AdaptorSum == WeightedSum(Len(adaptors))

BaseReturned == cls = "BaseDistiller" /\ step_pc = "returned"

InterReturned == cls = "InterDistiller" /\ step_pc = "returned"

\* C1: when BaseDistiller.training_step finds 'pred:nll' exactly zero, neither
\* 'pred:nll' nor 'nll_loss_teacher' is among the summed terms, and the value
\* returned is the sum of the adaptor terms.
C1_ZeroPredExcluded ==
    (BaseReturned /\ PredTerm = 0) =>
        /\ "pred:nll" \notin DictKeys(loss_dict)
        /\ "nll_loss_teacher" \notin DictKeys(loss_dict)
        /\ ret = AdaptorSum

\* A step on a labelled batch whose student loss is zero and whose teacher
\* loss and adaptor terms are not.
C1_Witness ==
    /\ BaseReturned
    /\ batch.labels
    /\ PredTerm = 0
    /\ TeacherTerm > 0
    /\ Len(adaptors) = 2
    /\ ret > 0

\* C2 (as stated): the value returned by BaseDistiller.training_step is the
\* sum of 'pred:nll', 'nll_loss_teacher' and the weighted adaptor terms, the
\* two prediction terms being dropped only when the prediction loss is zero or
\* absent.
C2_TotalIncludesTeacher ==
    BaseReturned =>
        ret = IF PredTerm = 0 THEN AdaptorSum
              ELSE PredTerm + TeacherTerm + AdaptorSum

\* C2 (amended): the value returned by BaseDistiller.training_step is the sum
\* of 'pred:nll' and the weighted adaptor terms; 'nll_loss_teacher' is never
\* among the summed terms, and 'pred:nll' is dropped exactly when the
\* prediction loss is zero or absent.
C2_TotalExcludesTeacher ==
    BaseReturned =>
        /\ ret = PredTerm + AdaptorSum
        /\ "nll_loss_teacher" \notin DictKeys(loss_dict)
        /\ ("pred:nll" \in DictKeys(loss_dict)) <=> (PredTerm # 0)

\* A step with non-zero student and teacher losses and an adaptor term.
C2_Witness ==
    /\ BaseReturned
    /\ PredTerm > 0
    /\ TeacherTerm > 0
    /\ AdaptorSum > 0
    /\ ret = PredTerm + AdaptorSum

\* C5: when the prediction loss is zero and every adaptor's loss is zero, the
\* value returned by BaseDistiller.training_step is zero, whatever the
\* weights; so it is with no adaptor.
C5_ZeroInputsZeroTotal ==
    (BaseReturned /\ PredTerm = 0
        /\ \A i \in 1..Len(adaptors) : adaptor_out[i] = 0) => ret = 0

\* A step with two weighted adaptors whose losses are zero, a zero student
\* loss and a non-zero teacher loss.
C5_Witness ==
    /\ BaseReturned
    /\ batch.labels
    /\ PredTerm = 0
    /\ TeacherTerm > 0
    /\ Len(adaptors) = 2
    /\ \A i \in 1..Len(adaptors) : adaptor_out[i] = 0 /\ adaptors[i].w = 2
    /\ ret = 0

\* C8: InterDistiller.training_step returns the sum of the weighted adaptor
\* terms only, whether the prediction loss is zero or not: neither 'pred:nll'
\* nor 'nll_loss_teacher' is among the summed terms, and every term, the two
\* dropped ones included, was logged.
C8_InterDropsPredTerms ==
    InterReturned =>
        /\ "pred:nll" \notin DictKeys(loss_dict)
        /\ "nll_loss_teacher" \notin DictKeys(loss_dict)
        /\ ret = AdaptorSum
        /\ Len(logged) = 2 + Len(adaptors)
        /\ logged[1] = <<"pred:nll", PredTerm>>
        /\ logged[2] = <<"nll_loss_teacher", TeacherTerm>>
        /\ \A i \in 1..Len(adaptors) :
              logged[2 + i] = <<adaptors[i].name, adaptors[i].w * adaptor_out[i]>>

\* A step of InterDistiller with a non-zero student loss.
C8_Witness ==
    /\ InterReturned
    /\ PredTerm > 0
    /\ TeacherTerm > 0
    /\ Len(adaptors) = 2
    /\ ret = AdaptorSum
    /\ ret > 0

\* C9: the two parameter groups built by configure_optimizers are disjoint
\* and hold no parameter of the teacher, and those of PredDistiller hold only
\* parameters of the student's classifier.
C9_NoTeacherParameter ==
    opt_pc = "configured" =>
        /\ param_groups[1].params \cap param_groups[2].params = {}
        /\ \A g \in 1..2 : \A n \in param_groups[g].params :
              /\ n[1] # "teacher"
              /\ opt_cls = "PredDistiller" =>
                    (n[1] = "student" /\ n[2] = "classifier")

C4_PerplexityOrInf ==
    ppl_pc = "done" =>
        /\ ppl_exc # "OverflowError"
        /\ outputs # <<>> =>
              /\ ppl_exc = "none"
              /\ perplexity = IF SeqSum(outputs) \div Len(outputs) <= ExpMaxArg
                              THEN <<"exp", SeqSum(outputs) \div Len(outputs)>>
                              ELSE <<"inf", 0>>

\* An epoch whose mean loss is above the threshold: infinity is logged.
C4_Witness ==
    /\ ppl_pc = "done"
    /\ Len(outputs) = 2
    /\ SeqSum(outputs) \div Len(outputs) > ExpMaxArg
    /\ perplexity = <<"inf", 0>>
    /\ ppl_exc = "none"

\* C6: a run of the script that reaches its end has finished the stage-one
\* training run before it started the stage-two run, has trained in stage two
\* the student object of stage one, and has saved a checkpoint of the student
\* in the model-hub format.
C6_StagesThenHubCheckpoint ==
    script_pc = "done" =>
        /\ events = <<"fit1:start", "fit1:end", "fit2:start", "fit2:end">>
        /\ distiller.student.id = "student#1"
        /\ distiller.student.fits = 2
        /\ \E m \in hub_ckpts : m.id = distiller.student.id

InvalidNames(a) ==
    \/ a.trn_dataset \notin {"sst2", "tweet", "sst2-tweet"}
    \/ a.val_dataset \notin {"sst2", "tweet"}

\* C7: with an invalid training or validation dataset name, get_dataset_obj
\* raises and returns no dataset, and the exception ends the script.
C7_InvalidNameRaises ==
    (InvalidNames(args) /\ script_pc # "get_dataset_obj") =>
        /\ script_pc = "raised"
        /\ script_exc = "UnboundLocalError"
        /\ dataset = NoDataset

\* The call raised on an invalid training name with a valid validation name.
C7_Witness ==
    /\ script_pc = "raised"
    /\ script_exc = "UnboundLocalError"
    /\ args.trn_dataset = "imdb"
    /\ args.val_dataset = "tweet"

LabelCount(name) == IF name = "sst2" THEN 2 ELSE 3

\* C10: once get_dataset_obj has returned, args.num_classes is the number of
\* labels of the validation dataset (2 for sst2, 3 for tweet), and teacher and
\* student are built with that number of labels.
C10_NumClassesOfValDataset ==
    dataset # NoDataset =>
        /\ args.num_classes = LabelCount(dataset.name)
        /\ teacher # NoModel =>
              /\ teacher.num_labels = LabelCount(dataset.name)
              /\ student.num_labels = LabelCount(dataset.name)

====
